---- MODULE Spec2Model ----
(***************************************************************************)
(* The proctoring monitor of Ai-Mock: the ProctoringCamera component.      *)
(* Two implementations of it are in the repository:                        *)
(*   "camera_utils"  src/src/components/proctoringCamera.tsx               *)
(*   "getUserMedia"  src/unnamed/part_000                                  *)
(* They share showWarning, the onResults classifier, the four listeners    *)
(* and the cleanup; they differ in how the camera is acquired.             *)
(*                                                                         *)
(* The state is the closure of one useEffect run (camera, lastWarningTime) *)
(* plus the hook state `warning`, the pending promises of that run and the *)
(* platform resources it holds (listeners, live camera tracks).            *)
(* Time is Date.now() in milliseconds, on a grid of a third of the         *)
(* throttle window.  Coordinates are hundredths (0.3 is 30).               *)
(***************************************************************************)
EXTENDS Integers, Sequences, FiniteSets, TLC

(* ---------------- bounds ---------------- *)
MaxTicks == 5
MaxMounts == 2
MaxFaces == 2

(* ---------------- program constants ---------------- *)
Throttle == 3000
XMin == 30
XMax == 70
YMin == 30
YDown == 75

TickMs == Throttle \div 3
StartMs == Throttle + TickMs
EndMs == StartMs + MaxTicks * TickMs

\* The message literals of the source, without their leading warning sign.
Null == "null"
NoFace == "Face not detected! Stay in front of camera"
MultipleFaces == "Multiple faces detected!"
OffScreen == "Please look at the screen!"
LookingDown == "Don't look down! Possible phone usage"
CameraBlocked == "Camera turned off or blocked!"
TabSwitch == "Tab switch detected!"
WindowBlur == "Window changed or minimized!"
FullscreenExit == "Fullscreen exited!"
DeviceChange == "Camera/Microphone device changed!"
PermissionDenied == "Camera permission denied!"

Messages ==
  {NoFace, MultipleFaces, OffScreen, LookingDown, CameraBlocked, TabSwitch,
   WindowBlur, FullscreenExit, DeviceChange, PermissionDenied}

Impls == {"camera_utils", "getUserMedia"}

ListenerNames == {"visibilitychange", "blur", "fullscreenchange", "devicechange"}

VARIABLES
  impl,             \* which of the two component sources is running
  now,              \* Date.now()
  mounts,           \* number of component instances mounted so far
  mounted,          \* the current instance is mounted (videoRef.current is set)
  warning,          \* useState: the displayed warning, Null or a message
  lastWarningTime,  \* closure variable of the effect
  camera,           \* closure variable: "null" or "created"
  gum,              \* initCamera's getUserMedia promise: none/pending/granted/denied
  start,            \* camera.start() promise: none/pending/resolved/rejected
  running,          \* the Camera delivers frames
  inflight,         \* onFrame is awaiting faceDetector.send
  listeners,        \* registered listeners, <<instance, name>>
  openTracks,       \* live camera streams, <<instance, "gum" | "cam">>
  thrown,           \* the call whose exception escaped to the host, or "none"
  stoppedEarly,     \* history: the cleanup ran while camera access was pending
  prevWarningTime,  \* history: lastWarningTime of the previous instance's closure
  lastCall          \* the handler that ran in the last step and what it submitted

vars ==
  <<impl, now, mounts, mounted, warning, lastWarningTime, camera, gum, start,
    running, inflight, listeners, openTracks, thrown, stoppedEarly,
    prevWarningTime, lastCall>>

NoCall == [op |-> "none", arg |-> "none", submitted |-> <<>>]

Call(op, arg, msgs) == [op |-> op, arg |-> arg, submitted |-> msgs]

(* ---------------- showWarning ---------------- *)

\* showWarning with the window compared by >= : a signal arriving exactly one
\* window after the last acceptance gets through.
ShowWarningAtBoundary(ws, msg, t) ==
  IF t - ws.lastWarningTime >= Throttle
    THEN [warning |-> msg, lastWarningTime |-> t]
    ELSE ws

\* showWarning without the window test.
ShowWarningUnthrottled(ws, msg, t) ==
  [warning |-> msg, lastWarningTime |-> t]

\* showWarning with setWarning(msg) ahead of the window test: a signal inside
\* the window is displayed without being stamped.
ShowWarningSetsFirst(ws, msg, t) ==
  IF t - ws.lastWarningTime > Throttle
    THEN [warning |-> msg, lastWarningTime |-> t]
    ELSE [warning |-> msg, lastWarningTime |-> ws.lastWarningTime]

\* showWarning that does not record the time of an accepted signal.
ShowWarningNoStamp(ws, msg, t) ==
  IF t - ws.lastWarningTime > Throttle
    THEN [warning |-> msg, lastWarningTime |-> ws.lastWarningTime]
    ELSE ws

\* showWarning with the operands of the subtraction exchanged: no signal is
\* ever accepted.
ShowWarningReversed(ws, msg, t) ==
  IF ws.lastWarningTime - t > Throttle
    THEN [warning |-> msg, lastWarningTime |-> t]
    ELSE ws

\* showWarning(msg) evaluated when Date.now() = t, on the pair
\* (warning, lastWarningTime) held in ws.
ShowWarning(ws, msg, t) ==
  IF t - ws.lastWarningTime > Throttle
    THEN [warning |-> msg, lastWarningTime |-> t]
    ELSE ws

\* A handler that takes the warning down when it has nothing to report.
EmitClears(msgs, d) ==
  LET w0 == [warning |-> warning, lastWarningTime |-> lastWarningTime]
      w1 == IF Len(msgs) >= 1 THEN ShowWarning(w0, msgs[1], now) ELSE w0
      w2 == IF Len(msgs) >= 2 THEN ShowWarning(w1, msgs[2], now + d) ELSE w1
  IN  /\ warning' = IF msgs = <<>> THEN Null ELSE w2.warning
      /\ lastWarningTime' = w2.lastWarningTime
      /\ now' = IF Len(msgs) >= 2 THEN now + d ELSE now

\* A handler that calls showWarning once per element of msgs, in order.  The
\* clock may move by d between two calls of one handler.
Emit(msgs, d) ==
  LET w0 == [warning |-> warning, lastWarningTime |-> lastWarningTime]
      w1 == IF Len(msgs) >= 1 THEN ShowWarning(w0, msgs[1], now) ELSE w0
      w2 == IF Len(msgs) >= 2 THEN ShowWarning(w1, msgs[2], now + d) ELSE w1
  IN  /\ warning' = w2.warning
      /\ lastWarningTime' = w2.lastWarningTime
      /\ now' = IF Len(msgs) >= 2 THEN now + d ELSE now

(* ---------------- the classifier: faceDetector.onResults ---------------- *)

\* The results object handed to onResults: its detections list, or none.
Detected(list) == [defined |-> TRUE, detections |-> list]

Missing == [defined |-> FALSE, detections |-> <<>>]

Centers == {20, 30, 50, 70, 75, 80}

Points == [x : Centers, y : Centers]

\* Positions used in lists of several faces: alone they classify to nothing,
\* to both position warnings, and to the first position warning only.
Corners == {[x |-> 50, y |-> 50], [x |-> 20, y |-> 80], [x |-> 80, y |-> 20]}

RECURSIVE ListsOf(_, _)
ListsOf(S, n) ==
  IF n = 0 THEN {<<>>}
  ELSE {Append(l, p) : l \in ListsOf(S, n - 1), p \in S}

\* Every detection list handed to onResults in the classifier runs.
Frames ==
  {Missing}
    \cup {Detected(l) : l \in ListsOf(Points, 0) \cup ListsOf(Points, 1)}
    \cup {Detected(l) : l \in UNION {ListsOf(Corners, n) : n \in 2..MaxFaces}}

\* The detection lists of the lifecycle runs.
SampleFrames ==
  {Missing, Detected(<<>>), Detected(<<[x |-> 50, y |-> 50]>>),
   Detected(<<[x |-> 20, y |-> 80]>>), Detected(<<[x |-> 50, y |-> 80]>>),
   Detected(<<[x |-> 50, y |-> 50], [x |-> 20, y |-> 80]>>)}

\* onResults without the return after the multiple-faces warning: the first
\* face is then analysed for its position too.
OnResultsCallsNoReturn(results) ==
  LET dets == results.detections
  IN  IF ~results.defined \/ Len(dets) = 0 THEN <<NoFace>>
      ELSE (IF Len(dets) > 1 THEN <<MultipleFaces>> ELSE <<>>)
           \o (IF dets[1].x < XMin \/ dets[1].x > XMax \/ dets[1].y < YMin
                 THEN <<OffScreen>> ELSE <<>>)
           \o (IF dets[1].y > YDown THEN <<LookingDown>> ELSE <<>>)

\* The showWarning calls onResults makes for one result, in order.
OnResultsCalls(results) ==
  IF ~results.defined \/ Len(results.detections) = 0 THEN <<NoFace>>
  ELSE IF Len(results.detections) > 1 THEN <<MultipleFaces>>
  ELSE LET centerX == results.detections[1].x
           centerY == results.detections[1].y
       IN  (IF centerX < XMin \/ centerX > XMax \/ centerY < YMin
              THEN <<OffScreen>> ELSE <<>>)
           \o (IF centerY > YDown THEN <<LookingDown>> ELSE <<>>)

(* ---------------- lifecycle ---------------- *)

Init ==
  /\ impl \in Impls
  /\ now = StartMs
  /\ mounts = 0
  /\ mounted = FALSE
  /\ warning = Null
  /\ lastWarningTime = 0
  /\ camera = "null"
  /\ gum = "none"
  /\ start = "none"
  /\ running = FALSE
  /\ inflight = FALSE
  /\ listeners = {}
  /\ openTracks = {}
  /\ thrown = "none"
  /\ stoppedEarly = FALSE
  /\ prevWarningTime = 0
  /\ lastCall = NoCall

\* A request for camera access has not resolved yet.
AccessPending == gum = "pending" \/ start = "pending"

\* Nothing of the previous instance is still pending or registered.  The host
\* mounts the next instance only then: the closures of two instances share
\* nothing, and the state holds one closure.
Quiescent ==
  /\ gum # "pending"
  /\ start # "pending"
  /\ ~inflight
  /\ listeners = {}

\* The four addEventListener calls of the effect.
Registered(i) == {<<i, n>> : n \in ListenerNames}

\* The listeners left after the cleanup ran its removeEventListener calls up
\* to, not including, step k (1 visibilitychange, 2 blur, 3 fullscreenchange,
\* 4 devicechange, 5 camera.stop).
RemovalOrder == <<"visibilitychange", "blur", "fullscreenchange", "devicechange">>

TeardownOrder == RemovalOrder \o <<"camera.stop">>

RemovedBefore(k) == {RemovalOrder[j] : j \in {j \in 1..4 : j < k}}

\* lastWarningTime declared outside the effect: the closure of the next
\* instance starts with the value the previous one left.
InitialStampCarried == lastWarningTime

\* lastWarningTime initialised with Date.now() instead of 0.
InitialStampNow == now

\* let lastWarningTime = 0: the value a new closure starts with.
InitialStamp == 0

\* The host renders <ProctoringCamera />: useState(null), then the effect.
Mount ==
  /\ ~mounted
  /\ mounts < MaxMounts
  /\ Quiescent
  /\ mounts' = mounts + 1
  /\ mounted' = TRUE
  /\ warning' = Null
  /\ lastWarningTime' = InitialStamp
  /\ prevWarningTime' = lastWarningTime
  /\ running' = FALSE
  /\ inflight' = FALSE
  /\ IF impl = "camera_utils"
       THEN camera' = "created" /\ start' = "pending" /\ gum' = "none"
       ELSE camera' = "null" /\ start' = "none" /\ gum' = "pending"
  /\ listeners' = listeners \cup Registered(mounts + 1)
  /\ stoppedEarly' = FALSE
  /\ lastCall' = NoCall
  /\ UNCHANGED <<impl, now, openTracks, thrown>>

\* camera.stop(): the Camera stops delivering frames and stops the tracks of
\* the stream it acquired.
CameraStop ==
  /\ running' = FALSE
  /\ openTracks' = openTracks \ {<<mounts, "cam">>}

\* The host removes the component: the effect's cleanup runs to its end.
Unmount ==
  /\ mounted
  /\ mounted' = FALSE
  /\ stoppedEarly' = AccessPending
  /\ listeners' = listeners \ Registered(mounts)
  /\ IF camera # "null" THEN CameraStop ELSE UNCHANGED <<running, openTracks>>
  /\ lastCall' = NoCall
  /\ UNCHANGED <<impl, now, mounts, warning, lastWarningTime, camera, gum,
                 start, inflight, thrown, prevWarningTime>>

\* The cleanup when its step k throws: the steps before it have run, the
\* throwing call and the ones after it have no effect.
UnmountThrows ==
  \E k \in 1..5 :
    /\ mounted
    /\ k = 5 => camera # "null"
    /\ mounted' = FALSE
    /\ stoppedEarly' = AccessPending
    /\ listeners' = listeners \ {<<mounts, n>> : n \in RemovedBefore(k)}
    /\ thrown' = TeardownOrder[k]
    /\ lastCall' = NoCall
    /\ UNCHANGED <<impl, now, mounts, warning, lastWarningTime, camera, gum,
                   start, running, inflight, openTracks, prevWarningTime>>

\* The effect when its addEventListener call k throws (navigator.mediaDevices
\* is undefined outside a secure context): the camera request made before it
\* stays pending, the listeners added before it stay registered, the effect
\* returns no cleanup and React takes the component down.
MountThrows ==
  \E k \in 1..4 :
    /\ ~mounted
    /\ mounts < MaxMounts
    /\ Quiescent
    /\ mounts' = mounts + 1
    /\ mounted' = FALSE
    /\ warning' = Null
    /\ lastWarningTime' = InitialStamp
    /\ prevWarningTime' = lastWarningTime
    /\ running' = FALSE
    /\ inflight' = FALSE
    /\ IF impl = "camera_utils"
         THEN camera' = "created" /\ start' = "pending" /\ gum' = "none"
         ELSE camera' = "null" /\ start' = "none" /\ gum' = "pending"
    /\ listeners' = listeners \cup {<<mounts + 1, n>> : n \in RemovedBefore(k)}
    /\ stoppedEarly' = FALSE
    /\ thrown' = "addEventListener"
    /\ lastCall' = NoCall
    /\ UNCHANGED <<impl, now, openTracks>>

(* ---------------- camera acquisition ---------------- *)

\* part_000: getUserMedia of initCamera resolves with a live stream.
GumGranted ==
  /\ gum = "pending"
  /\ gum' = "granted"
  /\ openTracks' = openTracks \cup {<<mounts, "gum">>}
  /\ IF mounted
       THEN camera' = "created" /\ start' = "pending"
       ELSE UNCHANGED <<camera, start>>
  /\ lastCall' = NoCall
  /\ UNCHANGED <<impl, now, mounts, mounted, warning, lastWarningTime, running,
                 inflight, listeners, thrown,
                 stoppedEarly, prevWarningTime>>

\* part_000: getUserMedia of initCamera rejects; the catch of initCamera.
GumDenied ==
  /\ gum = "pending"
  /\ gum' = "denied"
  /\ Emit(<<PermissionDenied>>, 0)
  /\ lastCall' = Call("catch", "getUserMedia", <<PermissionDenied>>)
  /\ UNCHANGED <<impl, mounts, mounted, camera, start, running, inflight,
                 listeners, openTracks, thrown,
                 stoppedEarly, prevWarningTime>>

\* camera.start() resolves: the Camera has acquired the camera itself (in
\* proctoringCamera.tsx it is the only request for camera access, and its
\* rejection is reported as "Camera permission denied!"), holds a live stream
\* and delivers frames.  Nothing in the effect tells the Camera that the
\* cleanup has run, so a start that resolves after camera.stop() does the same.
StartResolved ==
  /\ start = "pending"
  /\ start' = "resolved"
  /\ openTracks' = openTracks \cup {<<mounts, "cam">>}
  /\ running' = TRUE
  /\ lastCall' = NoCall
  /\ UNCHANGED <<impl, now, mounts, mounted, warning, lastWarningTime, camera,
                 gum, inflight, listeners, thrown,
                 stoppedEarly, prevWarningTime>>

\* camera.start() rejects: .catch of proctoringCamera.tsx, catch of initCamera.
StartRejected ==
  /\ start = "pending"
  /\ start' = "rejected"
  /\ Emit(<<PermissionDenied>>, 0)
  /\ lastCall' = Call("catch", "camera.start", <<PermissionDenied>>)
  /\ UNCHANGED <<impl, mounts, mounted, camera, gum, running, inflight,
                 listeners, openTracks, thrown,
                 stoppedEarly, prevWarningTime>>

(* ---------------- frames ---------------- *)

\* What onFrame read: videoRef.current (ref) and, when it is set, whether
\* readyState >= 2 and videoWidth # 0 (ready).
Read(ready) == [ref |-> mounted, ready |-> ready]

\* onFrame without the return after the blocked warning: the frame is sent
\* to the detector all the same.
OnFrameNoReturn(ready) ==
  /\ running
  /\ ~inflight
  /\ IF ~mounted
       THEN /\ lastCall' = Call("onFrame", Read(ready), <<>>)
            /\ UNCHANGED <<now, warning, lastWarningTime, inflight>>
       ELSE IF ~ready
         THEN /\ Emit(<<CameraBlocked>>, 0)
              /\ lastCall' = Call("onFrame", Read(ready), <<CameraBlocked>>)
              /\ inflight' = TRUE
         ELSE /\ inflight' = TRUE
              /\ lastCall' = Call("onFrame", Read(ready), <<>>)
              /\ UNCHANGED <<now, warning, lastWarningTime>>
  /\ UNCHANGED <<impl, mounts, mounted, camera, gum, start, running, listeners,
                 openTracks, thrown,
                 stoppedEarly, prevWarningTime>>

\* The Camera calls onFrame; ready is readyState >= 2 and videoWidth # 0.
OnFrame(ready) ==
  /\ running
  /\ ~inflight
  /\ IF ~mounted
       THEN /\ lastCall' = Call("onFrame", Read(ready), <<>>)
            /\ UNCHANGED <<now, warning, lastWarningTime, inflight>>
       ELSE IF ~ready
         THEN /\ Emit(<<CameraBlocked>>, 0)
              /\ lastCall' = Call("onFrame", Read(ready), <<CameraBlocked>>)
              /\ UNCHANGED inflight
         ELSE /\ inflight' = TRUE
              /\ lastCall' = Call("onFrame", Read(ready), <<>>)
              /\ UNCHANGED <<now, warning, lastWarningTime>>
  /\ UNCHANGED <<impl, mounts, mounted, camera, gum, start, running, listeners,
                 openTracks, thrown,
                 stoppedEarly, prevWarningTime>>

\* faceDetector.send delivers its result to the onResults callback; d is the
\* time that passes between the callback's two showWarning calls.
OnResults(results, d) ==
  /\ inflight
  /\ now + d <= EndMs
  /\ inflight' = FALSE
  /\ Emit(OnResultsCalls(results), d)
  /\ lastCall' = Call("onResults", results, OnResultsCalls(results))
  /\ UNCHANGED <<impl, mounts, mounted, camera, gum, start, running, listeners,
                 openTracks, thrown,
                 stoppedEarly, prevWarningTime>>

\* A rejection of faceDetector.send handled as a denied permission.
SendFailsDenied ==
  /\ inflight
  /\ inflight' = FALSE
  /\ Emit(<<PermissionDenied>>, 0)
  /\ lastCall' = Call("sendFailed", "none", <<PermissionDenied>>)
  /\ UNCHANGED <<impl, mounts, mounted, camera, gum, start, running, listeners,
                 openTracks, thrown, stoppedEarly, prevWarningTime>>

\* faceDetector.send rejects: onResults is not called for that frame and the
\* promise of onFrame rejects, with no handler in the component.  The Camera,
\* which receives that promise, either goes on delivering frames or not.
SendFails ==
  /\ inflight
  /\ inflight' = FALSE
  /\ \E goesOn \in BOOLEAN : running' = (running /\ goesOn)
  /\ lastCall' = Call("sendFailed", "none", <<>>)
  /\ UNCHANGED <<impl, now, mounts, mounted, warning, lastWarningTime, camera,
                 gum, start, listeners, openTracks, thrown,
                 stoppedEarly, prevWarningTime>>

(* ---------------- lifecycle events ---------------- *)

\* Listeners that warn on every event, without reading document.hidden or
\* document.fullscreenElement.
HandlerCallsUnconditional(name, flag) ==
  CASE name = "visibilitychange" -> <<TabSwitch>>
    [] name = "blur" -> <<WindowBlur>>
    [] name = "fullscreenchange" -> <<FullscreenExit>>
    [] name = "devicechange" -> <<DeviceChange>>

\* The showWarning calls of each listener; flag is document.hidden for
\* visibilitychange and (document.fullscreenElement present) for
\* fullscreenchange, and is not read by the other two.
HandlerCalls(name, flag) ==
  CASE name = "visibilitychange" -> IF flag THEN <<TabSwitch>> ELSE <<>>
    [] name = "blur" -> <<WindowBlur>>
    [] name = "fullscreenchange" -> IF ~flag THEN <<FullscreenExit>> ELSE <<>>
    [] name = "devicechange" -> <<DeviceChange>>

Flags(name) ==
  IF name \in {"visibilitychange", "fullscreenchange"} THEN BOOLEAN ELSE {FALSE}

\* The platform fires an event a listener of the current closure is
\* registered for.
Event(name, flag) ==
  /\ <<mounts, name>> \in listeners
  /\ Emit(HandlerCalls(name, flag), 0)
  /\ lastCall' = Call(name, flag, HandlerCalls(name, flag))
  /\ UNCHANGED <<impl, mounts, mounted, camera, gum, start, running, inflight,
                 listeners, openTracks, thrown,
                 stoppedEarly, prevWarningTime>>

(* ---------------- time ---------------- *)

Tick ==
  /\ now + TickMs <= EndMs
  /\ now' = now + TickMs
  /\ lastCall' = NoCall
  /\ UNCHANGED <<impl, mounts, mounted, warning, lastWarningTime, camera, gum,
                 start, running, inflight, listeners, openTracks, thrown,
                 stoppedEarly, prevWarningTime>>

(* ---------------- specifications ---------------- *)

Frame == \E ready \in BOOLEAN : OnFrame(ready)

Results == \E results \in SampleFrames, d \in {0, TickMs} : OnResults(results, d)

Listener == \E name \in ListenerNames : \E flag \in Flags(name) : Event(name, flag)

Next ==
  \/ Mount
  \/ Unmount
  \/ GumGranted
  \/ GumDenied
  \/ StartResolved
  \/ StartRejected
  \/ Frame
  \/ Results
  \/ SendFails
  \/ Listener
  \/ Tick

Spec == Init /\ [][Next]_vars

\* The lifecycle with teardown steps that may throw.
NextFaults == Next \/ UnmountThrows

SpecFaults == Init /\ [][NextFaults]_vars

\* The monitor with a failing listener registration.
NextRegistration == Next \/ MountThrows

SpecRegistration == Init /\ [][NextRegistration]_vars

\* A handler runs and calls showWarning at least once.
Submits == (Frame \/ Results \/ Listener) /\ lastCall'.submitted # <<>>

\* One instance, mounted and left mounted, with a clock that advances while
\* it can and sources that keep submitting signals.
NextLive ==
  \/ Mount
  \/ GumGranted
  \/ StartResolved
  \/ Frame
  \/ Results
  \/ Listener
  \/ Tick

SpecLive == Init /\ [][NextLive]_vars /\ WF_vars(Tick) /\ WF_vars(Submits)

\* The running monitor fed every detection list of Frames.
ResultsAll == \E results \in Frames, d \in {0, TickMs} : OnResults(results, d)

NextClassify ==
  \/ Mount
  \/ GumGranted
  \/ StartResolved
  \/ Frame
  \/ ResultsAll
  \/ Tick

SpecClassify == Init /\ [][NextClassify]_vars

(* ---------------- properties ---------------- *)

\* The listeners and live streams of the current instance.
OwnListeners == {l \in listeners : l[1] = mounts}

OwnTracks == {t \in openTracks : t[1] = mounts}

\* Camera access was refused: the monitor is Failed.
Failed == gum = "denied" \/ start = "rejected"

\* C1: a handler that submits one signal msg at time now makes msg the
\* message and now the last emission time when now - lastEmittedAt > 3000,
\* and otherwise leaves both as they were; a lifecycle listener changes
\* nothing else of the monitor either way.
C1_AcceptContract ==
  [][Len(lastCall'.submitted) = 1 =>
       /\ IF now - lastWarningTime > Throttle
            THEN warning' = lastCall'.submitted[1] /\ lastWarningTime' = now
            ELSE UNCHANGED <<warning, lastWarningTime>>
       /\ lastCall'.op \in ListenerNames =>
            UNCHANGED <<now, mounts, mounted, camera, gum, start, running,
                        inflight, listeners, openTracks, thrown>>]_vars

\* C1 witness: a window blur was dropped exactly one window after a tab
\* switch had been accepted.
C1_Witness ==
  /\ lastCall.op = "blur"
  /\ warning = TabSwitch
  /\ now - lastWarningTime = Throttle

\* C2: within one monitor instance no step taken less than 3000 ms after the
\* last acceptance changes the message: it stays the one accepted first.
C2_FirstWinsInWindow ==
  [][(mounts' = mounts /\ now' - lastWarningTime < Throttle) =>
       warning' = warning]_vars

\* C2 witness: a window blur arrived inside the window opened by a tab
\* switch and the tab switch is still the message.
C2_Witness ==
  /\ lastCall.op = "blur"
  /\ warning = TabSwitch
  /\ lastWarningTime < now
  /\ now - lastWarningTime < Throttle

\* C3: once the cleanup of an instance has returned, no step changes the
\* message or the last emission time of that instance.
C3_NoMutationAfterStop ==
  [][(~mounted /\ mounts > 0 /\ mounts' = mounts) =>
       UNCHANGED <<warning, lastWarningTime>>]_vars

\* C4: an instance unmounted while camera access was pending has, once that
\* request has resolved, thrown nothing and holds no listener and no live
\* camera track.
C4_EarlyUnmountLeavesNothing ==
  (~mounted /\ stoppedEarly /\ ~AccessPending) =>
    (thrown = "none" /\ OwnListeners = {} /\ OwnTracks = {})

\* C5: a monitor instance holds at most one camera stream.
C5_AtMostOneSession == Cardinality(OwnTracks) <= 1

\* C6: after the cleanup, whatever a release call raised, no listener of
\* any instance is registered, the one whose own removal raised excepted.
C6_NoListenerAfterStop ==
  ~mounted => {l \in listeners : l[2] # thrown} = {}

\* C7: a throwing listener removal does not keep the later teardown steps
\* from running: the Camera of an instance whose access had resolved is
\* stopped and its stream released.
C7_TeardownContinuesOnError ==
  (~mounted /\ thrown \in ListenerNames /\ ~stoppedEarly /\ camera # "null") =>
    (~running /\ <<mounts, "cam">> \notin openTracks)

\* C8: while the monitor is mounted and Failed, the permission-denied
\* message is the displayed message.
C8_DeniedIsPersistent == (mounted /\ Failed) => warning = PermissionDenied

\* C9: an empty or missing detection list submits NoFace and nothing else, a
\* list of two or more detections submits MultipleFaces and nothing else.
C9_CountRules ==
  lastCall.op = "onResults" =>
    /\ ~lastCall.arg.defined => lastCall.submitted = <<NoFace>>
    /\ Len(lastCall.arg.detections) = 0 => lastCall.submitted = <<NoFace>>
    /\ Len(lastCall.arg.detections) >= 2 =>
         lastCall.submitted = <<MultipleFaces>>

\* C9 witness: two faces, the first of which is off centre and low, gave
\* MultipleFaces, and that became the message.
C9_Witness ==
  /\ lastCall.op = "onResults"
  /\ lastCall.arg = Detected(<<[x |-> 20, y |-> 80], [x |-> 50, y |-> 50]>>)
  /\ warning = MultipleFaces
  /\ lastWarningTime = now

\* The signal section 4.4 gives for one detection at (x, y).
C10_Expected(x, y) ==
  IF x < XMin \/ x > XMax \/ y < YMin THEN <<OffScreen>>
  ELSE IF y > YDown THEN <<LookingDown>>
  ELSE <<>>

\* C10: a single detection at (x, y) submits OffScreen iff x < 0.3 or x > 0.7
\* or y < 0.3, otherwise LookingDown iff y > 0.75, otherwise nothing.
C10_SingleFaceRule ==
  (/\ lastCall.op = "onResults"
   /\ lastCall.arg.defined
   /\ Len(lastCall.arg.detections) = 1) =>
    lastCall.submitted =
      C10_Expected(lastCall.arg.detections[1].x, lastCall.arg.detections[1].y)

\* The messages of a sequence of showWarning calls.
Submitted(call) == {call.submitted[i] : i \in 1..Len(call.submitted)}

\* One detection for which both position conditions hold.
TieBreak(call) ==
  /\ call.op = "onResults"
  /\ call.arg.defined
  /\ Len(call.arg.detections) = 1
  /\ LET x == call.arg.detections[1].x
         y == call.arg.detections[1].y
     IN  (x < XMin \/ x > XMax \/ y < YMin) /\ y > YDown

\* C11: a frame whose single detection satisfies both the OffScreen condition
\* and y > 0.75 never makes LookingDown the displayed message, whatever the
\* throttle state and the time its processing takes.
C11_TieBreakNeverLookingDown ==
  [][TieBreak(lastCall') =>
       ~(warning' = LookingDown /\ lastWarningTime' # lastWarningTime)]_vars

\* C12: within one instance the message changes only in the step of a
\* handler whose signal is accepted in that very step, and then to a message
\* that handler submitted; a dropped signal is not displayed by a later step.
C12_MessageIsLastAccepted ==
  [][(mounts' = mounts /\ warning' # warning) =>
       /\ warning' \in Submitted(lastCall')
       /\ now - lastWarningTime > Throttle \/ now' - lastWarningTime > Throttle
       /\ lastWarningTime' # lastWarningTime]_vars

\* C12 witness: a device change was dropped inside the window of a window
\* blur, which is still the message once the window has passed.
C12_Witness ==
  /\ lastCall.op = "devicechange"
  /\ warning = WindowBlur
  /\ now - lastWarningTime = Throttle

\* C13: no call of the monitor lets an exception escape to the host.
C13_NothingThrown == thrown = "none"

\* C14: after the cleanup of an instance whose camera access had resolved,
\* no stream opened for that instance has live tracks.
C14_StopReleasesAllTracks ==
  (~mounted /\ mounts > 0 /\ ~stoppedEarly /\ thrown = "none") => OwnTracks = {}

\* The lifecycle state of the current instance.
LifecycleState ==
  IF mounts = 0 THEN "Idle"
  ELSE IF ~mounted THEN "Stopped"
  ELSE IF Failed THEN "Failed"
  ELSE IF AccessPending THEN "Starting"
  ELSE "Active"

\* The transitions of section 4.7, Stopping being the cleanup itself, with
\* the unmount of a monitor that is Starting or Failed added to them.
C15_Edges ==
  {<<"Idle", "Starting">>, <<"Starting", "Active">>, <<"Starting", "Failed">>,
   <<"Active", "Stopped">>, <<"Starting", "Stopped">>, <<"Failed", "Stopped">>}

\* C15: within one instance the lifecycle state moves only along those
\* transitions, and Stopped is entered only when every teardown step has been
\* attempted: each listener removal and, for a created Camera, camera.stop.
C15_LifecycleOrder ==
  [][mounts' = mounts =>
       /\ LifecycleState' # LifecycleState =>
            <<LifecycleState, LifecycleState'>> \in C15_Edges
       /\ (mounted /\ ~mounted') =>
            /\ {l \in listeners' : l[1] = mounts /\ l[2] # thrown'} = {}
            /\ (camera # "null" /\ thrown' # "camera.stop") => ~running']_vars

\* C16: after the cleanup no frame is sent to the detector and no detection
\* result is handed to onResults.
C16_NoResultAfterStop ==
  [][(~mounted /\ ~mounted') =>
       /\ ~(~inflight /\ inflight')
       /\ ~(inflight /\ ~inflight' /\ lastCall'.op = "onResults")]_vars

\* A handler of the frame path, of the event path, that submitted a signal.
FramePath(call) == call.op \in {"onFrame", "onResults"} /\ call.submitted # <<>>

EventPath(call) == call.op \in ListenerNames /\ call.submitted # <<>>

\* C17: when a handler of one path had its signal accepted and a handler of
\* the other path runs next, inside the window just opened, the second
\* signal is dropped: the message stays a signal of the first handler and the
\* last emission time stays the time of its acceptance.
C17_FirstProcessedWins ==
  [][(/\ \/ FramePath(lastCall) /\ EventPath(lastCall')
         \/ EventPath(lastCall) /\ FramePath(lastCall')
      /\ lastWarningTime = now
      /\ warning \in Submitted(lastCall)) =>
       /\ warning' = warning
       /\ lastWarningTime' = lastWarningTime
       /\ warning' \notin Submitted(lastCall') \ Submitted(lastCall)]_vars

\* C17 witness: a frame without a face was accepted and the window blur
\* processed after it, at the same time, was dropped.
C17_Witness ==
  /\ lastCall.op = "blur"
  /\ warning = NoFace
  /\ lastWarningTime = now

\* The signals of the four listeners.
EventSignals == {TabSwitch, WindowBlur, FullscreenExit, DeviceChange}

\* C18: within one instance the message and the last emission time change
\* only together, in the step of a handler that submitted the new message,
\* the time becoming the time of that call; a listener submits its own
\* signal only and involves neither the detector nor the classifier.
C18_SingleMutationPoint ==
  [][mounts' = mounts =>
       /\ (warning' # warning \/ lastWarningTime' # lastWarningTime) =>
            /\ lastWarningTime' \in {now, now'}
            /\ lastWarningTime' > lastWarningTime
            /\ warning' \in Submitted(lastCall')
       /\ lastCall'.op \in ListenerNames =>
            /\ Submitted(lastCall') \subseteq EventSignals
            /\ UNCHANGED inflight]_vars

\* C18 witness: a tab switch replaced an earlier message and stamped the
\* time of its acceptance.
C18_Witness ==
  /\ lastCall.op = "visibilitychange"
  /\ warning = TabSwitch
  /\ lastWarningTime = now
  /\ now > StartMs + Throttle

\* C19: onResults calls showWarning at most once per frame.
C19_AtMostOneSignalPerFrame ==
  lastCall.op = "onResults" => Len(lastCall.submitted) <= 1

\* C20: for a frame delivered while the video element is attached, when it is
\* not ready CameraBlocked is submitted and nothing is sent to the detector;
\* when it is ready the frame is sent once and no signal is submitted.
C20_ReadinessCheck ==
  [][(lastCall'.op = "onFrame" /\ mounted) =>
       IF lastCall'.arg.ready
         THEN /\ ~inflight /\ inflight'
              /\ lastCall'.submitted = <<>>
              /\ UNCHANGED <<warning, lastWarningTime>>
         ELSE /\ lastCall'.submitted = <<CameraBlocked>>
              /\ UNCHANGED inflight]_vars

\* C20 witness: a frame that was not ready made CameraBlocked the message
\* and left the detector idle.
C20_Witness ==
  /\ lastCall.op = "onFrame"
  /\ lastCall.arg.ref
  /\ ~lastCall.arg.ready
  /\ warning = CameraBlocked
  /\ lastWarningTime = now
  /\ ~inflight

\* C21: a frame whose faceDetector.send rejects submits no signal and leaves
\* warning and lastWarningTime as they were; the instance keeps its lifecycle
\* state (no access request becomes denied or rejected by it), and a frame
\* delivered next with the video ready is sent to the detector.
C21_SendFailureIsLocal ==
  [][/\ lastCall'.op = "sendFailed" =>
          /\ lastCall'.submitted = <<>>
          /\ UNCHANGED <<warning, lastWarningTime, gum, start, mounted>>
          /\ LifecycleState' = LifecycleState
          /\ ~inflight'
     /\ (lastCall.op = "sendFailed" /\ lastCall'.op = "onFrame" /\ mounted) =>
          /\ lastCall'.arg.ready => (inflight' /\ lastCall'.submitted = <<>>)
          /\ ~lastCall'.arg.ready => lastCall'.submitted = <<CameraBlocked>>]_vars

\* A send has failed in an Active instance that shows a warning, and the
\* Camera goes on delivering frames.
C21_Witness ==
  /\ lastCall.op = "sendFailed"
  /\ LifecycleState = "Active"
  /\ running
  /\ warning = NoFace

\* C22: a visibility change submits TabSwitch when the document is hidden and
\* nothing when it is visible; a fullscreen change submits FullscreenExit when
\* no fullscreen element is present and nothing when one is; every blur
\* submits WindowBlur; every device change submits DeviceChange; a listener
\* submits nothing else.
C22_FanInMapping ==
  /\ lastCall.op = "visibilitychange" =>
       lastCall.submitted = IF lastCall.arg THEN <<TabSwitch>> ELSE <<>>
  /\ lastCall.op = "fullscreenchange" =>
       lastCall.submitted = IF lastCall.arg THEN <<>> ELSE <<FullscreenExit>>
  /\ lastCall.op = "blur" => lastCall.submitted = <<WindowBlur>>
  /\ lastCall.op = "devicechange" => lastCall.submitted = <<DeviceChange>>
  /\ lastCall.op \in ListenerNames => Submitted(lastCall) \subseteq EventSignals

\* The document became visible again while a warning of another kind was
\* displayed past its window: the listener ran and submitted nothing.
C22_Witness ==
  /\ lastCall.op = "visibilitychange"
  /\ lastCall.arg = FALSE
  /\ lastCall.submitted = <<>>
  /\ warning = WindowBlur
  /\ now - lastWarningTime > Throttle

\* C23: a mounted instance holds exactly its four listeners, whatever the
\* state of the camera request, and an instance whose registration threw
\* holds none.
C23_FourListenersAllOrNone ==
  /\ mounted => OwnListeners = Registered(mounts)
  /\ thrown = "addEventListener" => OwnListeners = {}

\* C24: within one instance a stream is acquired only when the instance holds
\* none, the instance then holding that one stream, and the streams of an
\* instance are closed only by the step of its cleanup.
C24_OneStreamClosedByStop ==
  [][mounts' = mounts =>
       /\ ~(OwnTracks' \subseteq OwnTracks) =>
            (OwnTracks = {} /\ \E t \in OwnTracks' : OwnTracks' = {t})
       /\ ~(OwnTracks \subseteq OwnTracks') => (mounted /\ ~mounted')]_vars

\* C25: within one instance two successive values of the last emission time
\* differ by more than 3000 ms, and a handler whose signals all arrive exactly
\* 3000 ms after the last acceptance changes neither the message nor the time.
C25_ThrottleBoundary ==
  [][mounts' = mounts =>
       /\ lastWarningTime' # lastWarningTime =>
            lastWarningTime' - lastWarningTime > Throttle
       /\ (lastCall'.submitted # <<>> /\ now' = now
             /\ now - lastWarningTime = Throttle) =>
            UNCHANGED <<warning, lastWarningTime>>]_vars

\* A frame with the video not ready arrived exactly 3000 ms after
\* FullscreenExit was accepted, and was dropped.
C25_Witness ==
  /\ lastCall.op = "onFrame"
  /\ lastCall.submitted = <<CameraBlocked>>
  /\ warning = FullscreenExit
  /\ now - lastWarningTime = Throttle

\* C26: an instance starts with the last emission time 0 at a clock past
\* 3000, and the first signal submitted to it, whatever its kind, becomes
\* the message, stamped with the time of the call.
C26_FirstSignalAccepted ==
  [][/\ mounts' # mounts => (lastWarningTime' = 0 /\ now' > Throttle)
     /\ (mounts' = mounts /\ warning = Null /\ lastCall'.submitted # <<>>) =>
          (warning' = lastCall'.submitted[1] /\ lastWarningTime' = now)]_vars

\* The first instance accepted a device change at the clock value it was
\* mounted at.
C26_Witness ==
  /\ mounts = 1
  /\ now = StartMs
  /\ lastCall.op = "devicechange"
  /\ warning = DeviceChange
  /\ lastWarningTime = now

\* C27: within one instance a message that is displayed is never taken down:
\* no step makes the message null again.
C27_NeverCleared ==
  [][(mounts' = mounts /\ warning # Null) => warning' # Null]_vars

\* A frame with one centred face was classified more than a window after
\* NoFace was accepted: nothing was submitted and NoFace is still displayed.
C27_Witness ==
  /\ lastCall.op = "onResults"
  /\ lastCall.arg.defined
  /\ Len(lastCall.arg.detections) = 1
  /\ lastCall.submitted = <<>>
  /\ warning = NoFace
  /\ now - lastWarningTime > Throttle

\* C28: every mount starts with no message and the last emission time 0,
\* and the first signal submitted to an instance mounted after another one
\* is accepted, however recently the previous instance accepted one.
C28_StatePerInstance ==
  [][/\ mounts' # mounts => (warning' = Null /\ lastWarningTime' = 0)
     /\ (mounts' = mounts /\ mounts > 1 /\ warning = Null
           /\ lastCall'.submitted # <<>>) =>
          (warning' # Null /\ lastWarningTime' = now)]_vars

\* The second instance accepted a signal less than 3000 ms after the first
\* instance had accepted one.
C28_Witness ==
  /\ mounts = 2
  /\ mounted
  /\ warning # Null
  /\ lastWarningTime = now
  /\ prevWarningTime > 0
  /\ now - prevWarningTime < Throttle

\* The last emission times after which the clock of the model still reaches
\* a value more than one window later.
AcceptTimes ==
  {0} \cup {t \in StartMs..(EndMs - Throttle - TickMs) : t % TickMs = 0}

\* C29: with the clock advancing and signals being submitted again and
\* again, an acceptance at time t in a mounted instance is followed by a
\* later acceptance, unless the instance is unmounted first.
C29_NeverBlocksForGood ==
  \A t \in AcceptTimes :
    (mounted /\ lastWarningTime = t) ~> (~mounted \/ lastWarningTime > t)

\* The first instance, Active, accepted a signal after its clock had
\* advanced by more than a window.
C29_Witness ==
  /\ mounts = 1
  /\ mounted
  /\ LifecycleState = "Active"
  /\ lastWarningTime = now
  /\ now > StartMs + Throttle
  /\ lastCall.submitted # <<>>

====
